---- MODULE Spec2Model ----
(***************************************************************************)
(* The pantry / recipe backend of jucacaju-api.                            *)
(*                                                                         *)
(* Two servers share the pantry routes: server.js (SQLite, callbacks) and  *)
(* server-production.js (PostgreSQL, async/await).  Only server.js has     *)
(* the route POST /api/recipes/:id/process-ingredients (the reconciler).   *)
(* The variable `server` says which of the two files is running.           *)
(*                                                                         *)
(* Text is a sequence of one-character strings, so that split, trim and    *)
(* toLowerCase are computed and not assumed.                               *)
(***************************************************************************)
EXTENDS Integers, Sequences, FiniteSets

(* ---------------------------- bounds ----------------------------------- *)

\* Largest row id the pantry hands out (AUTOINCREMENT / SERIAL is unbounded).
MaxId == 3
\* Longest `ingredients` text the normalizer is given.
MaxLen == 5

(* ---------------------------- text ------------------------------------- *)

\* The characters of the model: a letter in both cases, a blank, the comma.
Chars == {"a", "A", " ", ","}

\* Character codes (ASCII), the order of SQLite's BINARY collation.
Code(c) == CASE c = " " -> 32 [] c = "," -> 44 [] c = "A" -> 65 [] c = "a" -> 97

\* A field that is absent from the request body.
Undefined == <<"undefined">>

\* The texts of at most n characters.
Str(n) == UNION {[1..k -> Chars] : k \in 0..n}

\* String.prototype.toLowerCase, one character.
LowerChar(c) == IF c = "A" THEN "a" ELSE c

toLowerCase(s) == [i \in 1..Len(s) |-> LowerChar(s[i])]

RECURSIVE trimStart(_)
trimStart(s) == IF s # <<>> /\ Head(s) = " " THEN trimStart(Tail(s)) ELSE s

RECURSIVE trimEnd(_)
trimEnd(s) ==
  IF s # <<>> /\ s[Len(s)] = " " THEN trimEnd(SubSeq(s, 1, Len(s) - 1)) ELSE s

\* String.prototype.trim
trim(s) == trimEnd(trimStart(s))

\* String.prototype.split(","): the pieces between commas, empty ones kept;
\* the empty text gives one empty piece.
RECURSIVE splitFrom(_, _)
splitFrom(s, piece) ==
  IF s = <<>> THEN <<piece>>
  ELSE IF Head(s) = "," THEN <<piece>> \o splitFrom(Tail(s), <<>>)
       ELSE splitFrom(Tail(s), Append(piece, Head(s)))

split(s) == splitFrom(s, <<>>)

\* Array.prototype.map with (ingredient) => ingredient.trim().toLowerCase()
mapNormalize(pieces) == [i \in 1..Len(pieces) |-> toLowerCase(trim(pieces[i]))]

\* Array.prototype.filter with () => true: every piece is kept.
filterNothing(pieces) == pieces

\* Array.prototype.filter with (ingredient) => ingredient.length > 0
RECURSIVE filterNonEmpty(_)
filterNonEmpty(pieces) ==
  IF pieces = <<>> THEN <<>>
  ELSE IF Len(Head(pieces)) > 0
       THEN <<Head(pieces)>> \o filterNonEmpty(Tail(pieces))
       ELSE filterNonEmpty(Tail(pieces))

\* const ingredientList = ingredients.split(",").map(...).filter(...)
ingredientList(ingredients) == filterNonEmpty(mapNormalize(split(ingredients)))

(* ---------------------------- pantry table ----------------------------- *)

\* has_item as stored: 1, 0 (SQLite) / true, false (PostgreSQL), or NULL.
HasItemValues == {"true", "false", "null"}
\* has_item as it arrives in a request body: a boolean, or not there.
HasItemInputs == {"true", "false", "undefined"}

\* sampleIngredients, scaled to the model's alphabet: rows seeded has_item = 1.
sampleIngredients == << <<"a">> >>

Row(id, ingredient, has_item) ==
  [id |-> id, ingredient |-> ingredient, has_item |-> has_item]

\* SELECT * FROM pantry WHERE ingredient = ? AND has_item = 1
SelectAvailable(table, ingredient) ==
  {row \in table : row.ingredient = ingredient /\ row.has_item = "true"}

\* SELECT * FROM pantry WHERE ingredient = ?
SelectByIngredient(table, ingredient) ==
  {row \in table : row.ingredient = ingredient}

\* ingredient TEXT NOT NULL: no constraint that could fire.
NoConstraint(table, ingredient) == FALSE

\* ingredient TEXT NOT NULL UNIQUE: whether a row holds the ingredient.
Conflicts(table, ingredient) == \E row \in table : row.ingredient = ingredient

\* has_item ? 1 : 0
Truthy(has_item) == IF has_item = "true" THEN "true" ELSE "false"

\* INSERT INTO pantry (ingredient) VALUES (?): has_item takes its DEFAULT 1.
InsertDefault(table, id, ingredient) ==
  table \cup {Row(id, ingredient, "true")}

\* INSERT INTO pantry (ingredient, has_item) VALUES (?, 0) on a table where
\* the UNIQUE constraint on ingredient does not fire.
InsertMissing(table, id, ingredient) ==
  table \cup {Row(id, ingredient, "false")}

VARIABLES
  server,   \* "dev" (server.js) or "production" (server-production.js)
  pantry,   \* the rows of table pantry
  nextId,   \* the id the next inserted row gets
  req,      \* the reconciliation requests, one record per request
  last      \* the handler or callback that ran last, its input and its reply

vars == <<server, pantry, nextId, req, last>>

\* The reconciliation requests of a behaviour.
Reqs == {"r1", "r2"}

NoResponse ==
  [status |-> 0, processedCount |-> 0, addedToShoppingList |-> 0,
   ingredients |-> <<>>]

\* res.json({ message: `Processados ${processedCount} ingredientes`, ... })
Summary(processedCount, addedToShoppingList, list) ==
  [status |-> 200, processedCount |-> processedCount,
   addedToShoppingList |-> addedToShoppingList, ingredients |-> list]

\* res.status(code).json({ error: ... })
ErrorResponse(code) == [NoResponse EXCEPT !.status = code]

NewRequest ==
  [pc |-> "idle", ingredients |-> Undefined, ingredientList |-> <<>>,
   index |-> 0,
   processedCount |-> 0, addedToShoppingList |-> 0,
   response |-> NoResponse,
   \* history: the storage calls issued; the table when the request arrived;
   \* whether nobody else has changed the table since then; whether the
   \* request repeats the list of a request that ended undisturbed
   calls |-> 0, start |-> {}, clean |-> TRUE, repeat |-> FALSE,
   \* history: the storage callbacks that ran; the rows the request's INSERT
   \* statements put into the table; the responses sent (res.json calls)
   answered |-> 0, inserts |-> 0, sent |-> 0]

\* The reply of a pantry route, with the input it answers.
Last(op, ingredient, id, has_item, status, rows) ==
  [op |-> op, ingredient |-> ingredient, id |-> id,
   has_item |-> has_item, status |-> status, rows |-> rows]

\* No pantry route ran last.
NoReply == Last("", <<>>, 0, "undefined", 0, <<>>)

\* res.status(status).json({ error: ... }) of a pantry route
ErrorReply(status) == Last("error", <<>>, 0, "undefined", status, <<>>)

RECURSIVE Seed(_, _)
Seed(names, id) ==
  IF names = <<>> THEN {}
  ELSE {Row(id, Head(names), "true")} \cup Seed(Tail(names), id + 1)

Init ==
  /\ server \in {"dev", "production"}
  /\ pantry = Seed(sampleIngredients, 1)
  /\ nextId = Len(sampleIngredients) + 1
  /\ req = [r \in Reqs |-> NewRequest]
  /\ last = NoReply

(* ---------------------------- history ---------------------------------- *)

\* The requests after a step of `who` ("" for a pantry route) that left the
\* table as `table`: a request whose table somebody else changed is no longer
\* undisturbed, and its snapshot is dropped.
Disturb(rq, who, table) ==
  [r \in Reqs |->
     IF r # who /\ rq[r].pc # "idle" /\ table # pantry
     THEN [rq[r] EXCEPT !.clean = FALSE, !.start = {}]
     ELSE rq[r]]

\* Whether a request arriving with `list` repeats a request that ended with
\* its summary and whose table nobody else has changed since it arrived.
Repeats(list) ==
  \E q \in Reqs : /\ req[q].pc = "done"
                  /\ req[q].response.status = 200
                  /\ req[q].clean
                  /\ req[q].ingredientList = list

(* ---------------------------- the reconciler --------------------------- *)

\* const processNext = () => { ... }: respond when the list is exhausted,
\* else call processIngredient, which issues db.get for ingredientList[index].
processNext(q) ==
  IF q.index >= Len(q.ingredientList)
  THEN [q EXCEPT !.pc = "done", !.sent = @ + 1,
                 !.response = Summary(q.processedCount, q.addedToShoppingList,
                                      q.ingredientList)]
  ELSE [q EXCEPT !.pc = "get", !.calls = @ + 1]

\* The ingredient processIngredient is working on: ingredientList[index].
Current(q) == q.ingredientList[q.index + 1]

\* if (ingredients === undefined)
FalsyUndefinedOnly(text) == text = Undefined

\* if (!ingredients), if (!ingredient)
Falsy(text) == text = Undefined \/ text = <<>>

\* RowFound without processedCount++.
RowFoundUncounted(q) == processNext([q EXCEPT !.index = @ + 1])

\* RowFound that counts the ingredient as added too.
RowFoundCountedAdded(q) ==
  processNext([q EXCEPT !.processedCount = @ + 1,
                        !.addedToShoppingList = @ + 1,
                        !.index = @ + 1])

\* if (row) { processedCount++; callback(null) }, and the callback given by
\* processNext: index++; processNext()
RowFound(q) ==
  processNext([q EXCEPT !.processedCount = @ + 1, !.index = @ + 1])

\* else { }: the insert is not issued and the callback is never called.
RowMissingDropped(q) == [q EXCEPT !.pc = "dropped"]

\* RowMissing under a lock per key: a key that another request is inserting
\* counts as found.
RowMissingUnlessPending(q) ==
  IF \E o \in Reqs : req[o].pc = "run" /\ Current(req[o]) = Current(q)
  THEN RowFound(q)
  ELSE [q EXCEPT !.pc = "run", !.calls = @ + 1]

\* else { db.run("INSERT ...", ...); callback(null) }: the insert is issued
\* and the next ingredient taken up without waiting for it.
RowMissingNoWait(q) ==
  processNext([q EXCEPT !.calls = @ + 1, !.processedCount = @ + 1,
                        !.index = @ + 1])

\* else { db.run("INSERT ...", ...) }
RowMissing(q) == [q EXCEPT !.pc = "run", !.calls = @ + 1]

\* RowInserted without addedToShoppingList++.
RowInsertedUncounted(q) ==
  processNext([q EXCEPT !.processedCount = @ + 1, !.index = @ + 1])

\* processedCount++; addedToShoppingList++; callback(null), and the callback
\* given by processNext: index++; processNext()
RowInserted(q) ==
  processNext([q EXCEPT !.processedCount = @ + 1,
                        !.addedToShoppingList = @ + 1,
                        !.index = @ + 1])

\* Failed without the return after the error response: index++; processNext()
FailedContinues(q) ==
  processNext([q EXCEPT !.response = ErrorResponse(500), !.sent = @ + 1,
                        !.index = @ + 1])

\* Failed without the return after callback(err) in the db.get callback: the
\* error response is sent and the code falls through to the INSERT.
FailedNoReturn(q) ==
  [q EXCEPT !.response = ErrorResponse(500), !.sent = @ + 1,
            !.pc = "run", !.calls = @ + 1]

\* callback(err), and the callback given by processNext:
\* res.status(500).json({ error: err.message })
Failed(q) ==
  [q EXCEPT !.pc = "done", !.response = ErrorResponse(500), !.sent = @ + 1]

\* app.post("/api/recipes/:id/process-ingredients", (req, res) => { ... })
\* up to the first storage call.  A request that has been answered makes
\* room for the next one.
ProcessIngredients(r, ingredients) ==
  /\ server = "dev"
  /\ req[r].pc \in {"idle", "done"}
  /\ LET arrived == [NewRequest EXCEPT !.ingredients = ingredients,
                                       !.start = pantry]
         list == ingredientList(ingredients)
         q == IF Falsy(ingredients)
              THEN [arrived EXCEPT !.pc = "done", !.sent = @ + 1,
                                   !.response = ErrorResponse(400)]
              ELSE processNext([arrived EXCEPT !.ingredientList = list,
                                               !.repeat = Repeats(list)])
     IN req' = [req EXCEPT ![r] = q]
  /\ last' = NoReply
  /\ UNCHANGED <<server, pantry, nextId>>

\* The callback of db.get in processIngredient: (err, row) => { ... }
GetDone(r, err) ==
  /\ req[r].pc = "get"
  /\ LET row == SelectByIngredient(pantry, Current(req[r]))
         called == [req[r] EXCEPT !.answered = @ + 1]
         q == IF err THEN Failed(called)
              ELSE IF row # {} THEN RowFound(called)
              ELSE RowMissing(called)
     IN req' = [req EXCEPT ![r] = q]
  /\ last' = NoReply
  /\ UNCHANGED <<server, pantry, nextId>>

\* The callback of db.run in processIngredient: function (err) { ... }
\* The insert fails when storage fails or when the UNIQUE constraint fires.
RunDone(r, err) ==
  /\ req[r].pc = "run"
  /\ LET ingredient == Current(req[r])
         failed == err \/ Conflicts(pantry, ingredient)
         table == IF failed THEN pantry
                  ELSE InsertMissing(pantry, nextId, ingredient)
         called == [req[r] EXCEPT !.answered = @ + 1]
         q == IF failed THEN Failed(called)
              ELSE RowInserted([called EXCEPT !.inserts = @ + 1])
     IN /\ failed \/ nextId <= MaxId
        /\ pantry' = table
        /\ nextId' = IF failed THEN nextId ELSE nextId + 1
        /\ req' = Disturb([req EXCEPT ![r] = q], r, table)
  /\ last' = NoReply
  /\ UNCHANGED server

(* ---------------------------- pantry routes ---------------------------- *)

\* The value node-postgres sends for a query parameter: undefined goes as NULL.
Param(has_item) == IF has_item = "undefined" THEN "null" ELSE has_item

\* INSERT INTO pantry (ingredient, has_item) VALUES (?, ?) with no constraint.
InsertDuplicate(table, id, ingredient, has_item) ==
  table \cup {Row(id, ingredient, has_item)}

\* INSERT OR REPLACE INTO pantry (ingredient, has_item) VALUES (?, ?): the row
\* that holds the ingredient is deleted and a new row, with a new id, inserted.
InsertOrReplace(table, id, ingredient, has_item) ==
  {row \in table : row.ingredient # ingredient}
    \cup {Row(id, ingredient, has_item)}

\* INSERT INTO pantry (ingredient, has_item) VALUES ($1, $2)
\*   ON CONFLICT (ingredient) DO UPDATE SET has_item = $2
InsertOnConflictUpdate(table, id, ingredient, has_item) ==
  IF Conflicts(table, ingredient)
  THEN {IF row.ingredient = ingredient THEN [row EXCEPT !.has_item = has_item]
        ELSE row : row \in table}
  ELSE table \cup {Row(id, ingredient, has_item)}

\* UPDATE pantry SET has_item = ? WHERE id = ?
UpdateHasItem(table, id, has_item) ==
  {IF row.id = id THEN [row EXCEPT !.has_item = has_item] ELSE row : row \in table}

\* DELETE FROM pantry WHERE id = ?
DeleteById(table, id) == {row \in table : row.id # id}

\* The changes of a statement without its WHERE clause: every row counts.
ChangesTotal(table, id) == Cardinality(table)

\* this.changes / result.rowCount of a statement with WHERE id = ?
Changes(table, id) == Cardinality({row \in table : row.id = id})

\* What a pantry route leaves: the table, the id counter, the reply.
PantryStep(table, id, reply) ==
  /\ pantry' = table
  /\ nextId' = id
  /\ req' = Disturb(req, "", table)
  /\ last' = reply
  /\ UNCHANGED server

\* The status of POST /api/pantry.
PostStatus(ingredient, err) ==
  IF Falsy(ingredient) THEN 400 ELSE IF err THEN 500 ELSE 200

\* server.js: app.post("/api/pantry", ...)
PostPantry(ingredient, has_item, err) ==
  /\ server = "dev"
  /\ IF PostStatus(ingredient, err) = 200
     THEN /\ nextId <= MaxId
          /\ PantryStep(InsertOrReplace(pantry, nextId, ingredient,
                                        Truthy(has_item)),
                        nextId + 1,
                        Last("POST /api/pantry", ingredient, 0, has_item,
                             200, <<>>))
     ELSE PantryStep(pantry, nextId,
                     ErrorReply(PostStatus(ingredient, err)))

\* server-production.js: app.post("/api/pantry", ...).  The SERIAL default
\* draws an id from the sequence whether or not a row is then inserted.
PostPantryProduction(ingredient, has_item, err) ==
  /\ server = "production"
  /\ IF PostStatus(ingredient, err) = 200
     THEN /\ nextId <= MaxId
          /\ PantryStep(InsertOnConflictUpdate(pantry, nextId, ingredient,
                                               Param(has_item)),
                        nextId + 1,
                        Last("POST /api/pantry", ingredient, 0, has_item,
                             200, <<>>))
     ELSE PantryStep(pantry, nextId,
                     ErrorReply(PostStatus(ingredient, err)))

\* server.js: app.put("/api/pantry/:id", ...)
PutPantry(id, has_item, err) ==
  /\ server = "dev"
  /\ IF err
     THEN PantryStep(pantry, nextId, ErrorReply(500))
     ELSE IF Changes(pantry, id) = 0
     THEN PantryStep(pantry, nextId, ErrorReply(404))
     ELSE PantryStep(UpdateHasItem(pantry, id, Truthy(has_item)), nextId,
                     Last("PUT /api/pantry/:id", <<>>, id, has_item, 200, <<>>))

\* server-production.js: app.put("/api/pantry/:id", ...)
PutPantryProduction(id, has_item, err) ==
  /\ server = "production"
  /\ IF err
     THEN PantryStep(pantry, nextId, ErrorReply(500))
     ELSE IF Changes(pantry, id) = 0
     THEN PantryStep(pantry, nextId, ErrorReply(404))
     ELSE PantryStep(UpdateHasItem(pantry, id, Param(has_item)), nextId,
                     Last("PUT /api/pantry/:id", <<>>, id, has_item, 200, <<>>))

\* server.js and server-production.js: app.delete("/api/pantry/:id", ...)
DeletePantry(id, err) ==
  IF err
  THEN PantryStep(pantry, nextId, ErrorReply(500))
  ELSE IF Changes(pantry, id) = 0
  THEN PantryStep(pantry, nextId, ErrorReply(404))
  ELSE PantryStep(DeleteById(pantry, id), nextId,
                  Last("DELETE /api/pantry/:id", <<>>, id, "undefined",
                       200, <<>>))

(* ---------------------------- shopping list ---------------------------- *)

\* ORDER BY ingredient: texts compared character by character, a proper
\* prefix first.
RECURSIVE TextLess(_, _)
TextLess(s, t) ==
  IF t = <<>> THEN FALSE
  ELSE IF s = <<>> THEN TRUE
  ELSE IF Head(s) # Head(t) THEN Code(Head(s)) < Code(Head(t))
  ELSE TextLess(Tail(s), Tail(t))

\* The rows of a set, ORDER BY id.
RECURSIVE OrderById(_)
OrderById(rows) ==
  IF rows = {} THEN <<>>
  ELSE LET first == CHOOSE row \in rows : \A other \in rows : row.id <= other.id
       IN <<first>> \o OrderById(rows \ {first})

\* The rows of a set, ORDER BY ingredient.
RECURSIVE OrderByIngredient(_)
OrderByIngredient(rows) ==
  IF rows = {} THEN <<>>
  ELSE LET first == CHOOSE row \in rows :
                      \A other \in rows :
                        ~TextLess(other.ingredient, row.ingredient)
       IN <<first>> \o OrderByIngredient(rows \ {first})

\* WHERE has_item = 0 / WHERE has_item = false
WhereMissing(table) == {row \in table : row.has_item = "false"}

\* SELECT * FROM pantry WHERE has_item = 0 ORDER BY ingredient
SelectShoppingList(table) == OrderByIngredient(WhereMissing(table))

\* server.js and server-production.js: app.get("/api/shopping-list", ...)
GetShoppingList(err) ==
  IF err
  THEN PantryStep(pantry, nextId, ErrorReply(500))
  ELSE PantryStep(pantry, nextId,
                  Last("GET /api/shopping-list", <<>>, 0, "undefined", 200,
                       SelectShoppingList(pantry)))

(* ---------------------------- specifications --------------------------- *)

\* The `ingredients` texts the reconciler is given: none, "", " ", "A",
\* " A,a", "a,aa", "aa, a,,aa".
RequestTexts ==
  {Undefined, <<>>, <<" ">>, <<"A">>, <<" ", "A", ",", "a">>,
   <<"a", ",", "a", "a">>,
   <<"a", "a", ",", " ", "a", ",", ",", "a", "a">>}
\* The `ingredient` texts POST /api/pantry is given: none, the empty text, a
\* normalized key, the same key in upper case, and a second key.
PantryTexts == {Undefined, <<>>, <<"a">>, <<"A">>, <<"a", "a">>}
\* The ids the :id routes are given.
Ids == 1..MaxId

\* The pantry routes, of whichever server runs.
PantryRoutes ==
  \/ \E k \in PantryTexts, h \in HasItemInputs, err \in BOOLEAN :
        PostPantry(k, h, err)
  \/ \E k \in PantryTexts, h \in HasItemInputs, err \in BOOLEAN :
        PostPantryProduction(k, h, err)
  \/ \E id \in Ids, h \in HasItemInputs, err \in BOOLEAN : PutPantry(id, h, err)
  \/ \E id \in Ids, h \in HasItemInputs, err \in BOOLEAN :
        PutPantryProduction(id, h, err)
  \/ \E id \in Ids, err \in BOOLEAN : DeletePantry(id, err)
  \/ \E err \in BOOLEAN : GetShoppingList(err)

\* Clients that send one reconciliation request at a time, each after the
\* answer to the one before, and use the pantry routes at any time.
Next ==
  \/ \E ingredients \in RequestTexts : ProcessIngredients("r1", ingredients)
  \/ \E err \in BOOLEAN : GetDone("r1", err)
  \/ \E err \in BOOLEAN : RunDone("r1", err)
  \/ PantryRoutes

Spec == Init /\ [][Next]_vars

\* Clients that use the pantry routes only.
SpecPantry == Init /\ [][PantryRoutes]_vars

\* The reconciler given any text of at most MaxLen characters, up to the
\* point where ingredientList is computed and the first lookup issued.
NextNormalizer ==
  \E ingredients \in Str(MaxLen) : ProcessIngredients("r1", ingredients)

SpecNormalizer == Init /\ [][NextNormalizer]_vars

\* The `ingredients` texts of overlapping reconciliation requests: "", "aa",
\* "a,aa" and "aa,a a" ("a" is seeded, "aa" and "a a" are not).
ConcurrentTexts ==
  {<<>>, <<"a", "a">>, <<"a", ",", "a", "a">>,
   <<"a", "a", ",", "a", " ", "a">>}
\* The key the upserts that run next to them are given.
UpsertTexts == {<<"a", "a">>}

\* A step of the reconciliation request r.
Reconciler(r) ==
  \/ \E ingredients \in ConcurrentTexts : ProcessIngredients(r, ingredients)
  \/ \E err \in BOOLEAN : GetDone(r, err)
  \/ \E err \in BOOLEAN : RunDone(r, err)

\* An upsert, of whichever server runs.
Upsert ==
  \/ \E k \in UpsertTexts, h \in HasItemInputs, err \in BOOLEAN :
        PostPantry(k, h, err)
  \/ \E k \in UpsertTexts, h \in HasItemInputs, err \in BOOLEAN :
        PostPantryProduction(k, h, err)

\* Clients whose reconciliation requests overlap (the callbacks of the two
\* requests interleave in any order), next to upserts.
NextConcurrent ==
  \/ \E r \in Reqs : Reconciler(r)
  \/ Upsert

SpecConcurrent == Init /\ [][NextConcurrent]_vars

\* SpecConcurrent where every storage call is answered in the end: sqlite3
\* runs the callback of db.get and of db.run when the statement has finished,
\* with or without an error.
Answered(r) ==
  /\ WF_vars(\E err \in BOOLEAN : GetDone(r, err))
  /\ WF_vars(\E err \in BOOLEAN : RunDone(r, err))

SpecAnswered == SpecConcurrent /\ \A r \in Reqs : Answered(r)

(* ---------------------------- vocabulary of the claims ----------------- *)

\* The request r has been answered with its summary / with a storage error.
Summarized(r) == req[r].pc = "done" /\ req[r].response.status = 200
StorageFailed(r) == req[r].response.status = 500

\* The keys among the first n elements of a list.
KeysOf(list, n) == {list[i] : i \in 1..n}

\* The keys of a table.
TableKeys(table) == {row.ingredient : row \in table}

\* The keys among the first n elements of a list that have no row in a table.
MissingKeys(list, n, table) == KeysOf(list, n) \ TableKeys(table)

\* `after` is `before` plus exactly one new row, has_item = false, for each
\* key of `keys` (and nothing else added, removed or changed).
AddedExactly(before, after, keys) ==
  /\ before \subseteq after
  /\ TableKeys(after \ before) = keys
  /\ Cardinality(after \ before) = Cardinality(keys)
  /\ \A row \in after \ before : row.has_item = "false"
  /\ \A k \in keys : Cardinality({row \in after : row.ingredient = k}) = 1

(* ---------------------------- C1 --------------------------------------- *)

\* C1: a reconciliation that ends with its summary while nobody else changed
\* the table returns processedCount = Len(L), addedToShoppingList = the number
\* of distinct keys of L without a row in the table P it started from, and
\* ingredients = L, and leaves the table as P plus exactly one new row with
\* has_item = false for each of those keys.
C1_Summary ==
  \A r \in Reqs :
    Summarized(r) /\ req[r].clean =>
      LET L == ingredientList(req[r].ingredients)
          new == MissingKeys(L, Len(L), req[r].start)
      IN /\ req[r].response.processedCount = Len(L)
         /\ req[r].response.addedToShoppingList = Cardinality(new)
         /\ req[r].response.ingredients = L
         /\ AddedExactly(req[r].start, pantry, new)

\* ["a", "aa"] against a table that holds "a" with has_item = true and no "aa".
C1_Witness ==
  \E r \in Reqs :
    /\ Summarized(r) /\ req[r].clean
    /\ req[r].ingredientList = << <<"a">>, <<"a", "a">> >>
    /\ req[r].response.processedCount = 2
    /\ req[r].response.addedToShoppingList = 1
    /\ \E row \in req[r].start : row.ingredient = <<"a">> /\ row.has_item = "true"
    /\ \E row \in pantry : row.ingredient = <<"a", "a">> /\ row.has_item = "false"

(* ---------------------------- C2 --------------------------------------- *)

\* How often a key occurs in a list.
Occurrences(list, k) == Cardinality({i \in 1..Len(list) : list[i] = k})

\* The step is the db.get callback of r, with no storage error.
LookupAnswered(r) ==
  /\ req[r].pc = "get"
  /\ req'[r].response.status # 500
  /\ req'[r].pc # "get" \/ req'[r].index # req[r].index

\* The step is the db.run callback of r, with no error.
InsertAnswered(r) ==
  /\ req[r].pc = "run"
  /\ req'[r].response.status # 500
  /\ req'[r].index # req[r].index

\* C2: while nobody else changes the table, a key that occurs several times
\* in one call is inserted once.  The insert that succeeds is for the first
\* occurrence of its key and counts as processed and added; the lookup of a
\* later occurrence finds the row, issues no insert, counts as processed only
\* and leaves the table alone; and when the summary is returned the table
\* holds exactly one row for each repeated key that was absent at the start.
C2_DuplicateOnce ==
  [][\A r \in Reqs :
       LET q == req[r]
           n == req'[r]
       IN /\ q.clean /\ InsertAnswered(r) =>
               /\ Current(q) \notin KeysOf(q.ingredientList, q.index)
               /\ pantry' = pantry \cup {Row(nextId, Current(q), "false")}
               /\ n.processedCount = q.processedCount + 1
               /\ n.addedToShoppingList = q.addedToShoppingList + 1
          /\ q.clean /\ LookupAnswered(r)
               /\ Current(q) \in KeysOf(q.ingredientList, q.index) =>
               /\ n.pc # "run"
               /\ n.index = q.index + 1
               /\ n.processedCount = q.processedCount + 1
               /\ n.addedToShoppingList = q.addedToShoppingList
               /\ pantry' = pantry
          /\ n.pc = "done" /\ n.response.status = 200 /\ n.clean =>
               \A k \in KeysOf(n.ingredientList, Len(n.ingredientList)) :
                 Occurrences(n.ingredientList, k) > 1
                   /\ k \notin TableKeys(n.start) =>
                   Cardinality({row \in pantry' : row.ingredient = k}) = 1
    ]_vars

\* ["a", "a"] against a table without "a": two processed, one added, one row.
C2_Witness ==
  \E r \in Reqs :
    /\ Summarized(r) /\ req[r].clean
    /\ req[r].ingredientList = << <<"a">>, <<"a">> >>
    /\ <<"a">> \notin TableKeys(req[r].start)
    /\ req[r].response.processedCount = 2
    /\ req[r].response.addedToShoppingList = 1
    /\ Cardinality({row \in pantry : row.ingredient = <<"a">>}) = 1

(* ---------------------------- C3 --------------------------------------- *)

\* r's storage call is answered with a failure in this step: an error of the
\* storage layer, or the UNIQUE constraint rejecting the insert.
CallFails(r) ==
  \/ GetDone(r, TRUE)
  \/ RunDone(r, TRUE)
  \/ RunDone(r, FALSE) /\ Conflicts(pantry, Current(req[r]))

\* C3: a storage call that fails while the k-th ingredient is processed
\* (k = index + 1) ends the request with the error response and changes
\* nothing in the table; the request has then issued k lookups and one insert
\* per row it added, plus the failed insert if it was one, and issues no call
\* and sends no other response afterwards; the rows it inserted for the
\* ingredients before position k are still there.
C3_Failure ==
  [][\A r \in Reqs :
       LET q == req[r]
           n == req'[r]
       IN /\ CallFails(r) =>
               /\ n.pc = "done" /\ n.response = ErrorResponse(500)
               /\ pantry' = pantry
               /\ n.index = q.index /\ n.calls = q.calls
          /\ n.response.status = 500 =>
               /\ n.pc = "done"
               /\ n.index < Len(n.ingredientList)
               /\ n.calls - (n.index + 1) - n.addedToShoppingList \in {0, 1}
               /\ n.clean =>
                    AddedExactly(n.start, pantry',
                                 MissingKeys(n.ingredientList, n.index, n.start))
          /\ q.response.status = 500 =>
               \/ n.response = q.response /\ n.calls = q.calls /\ n.pc = "done"
               \/ \E ingredients \in RequestTexts :
                    ProcessIngredients(r, ingredients)
    ]_vars

\* ["aa", "a", "aa"]: "aa" was inserted, then the lookup of "a" failed; the
\* row of "aa" is there and the third ingredient was never looked up.
C3_Witness ==
  \E r \in Reqs :
    /\ StorageFailed(r) /\ req[r].clean
    /\ Len(req[r].ingredientList) = 3
    /\ req[r].index = 1
    /\ req[r].addedToShoppingList = 1
    /\ req[r].calls = 3
    /\ \E row \in pantry \ req[r].start : row.ingredient = req[r].ingredientList[1]

(* ---------------------------- C4 --------------------------------------- *)

\* C4: a request that reconciles the list of a request answered with its
\* summary, with no other change of the table from the arrival of the first
\* to the answer of the second, returns addedToShoppingList = 0 and leaves
\* the table as the first left it.
C4_Idempotent ==
  \A r \in Reqs :
    Summarized(r) /\ req[r].repeat /\ req[r].clean =>
      /\ req[r].response.addedToShoppingList = 0
      /\ req[r].response.processedCount = Len(req[r].ingredientList)
      /\ pantry = req[r].start

\* The second call of ["a", "aa"], whose first call had inserted a row.
C4_Witness ==
  \E r \in Reqs :
    /\ Summarized(r) /\ req[r].repeat /\ req[r].clean
    /\ Len(req[r].ingredientList) = 2
    /\ \E row \in pantry : /\ row.ingredient \in KeysOf(req[r].ingredientList, 2)
                           /\ row.has_item = "false"
                           /\ row.id = nextId - 1

(* ---------------------------- C5 --------------------------------------- *)

\* C5: no two rows of the table have keys that are equal after lower-casing
\* and trimming.
C5_CaseInsensitiveUnique ==
  \A a, b \in pantry :
    toLowerCase(trim(a.ingredient)) = toLowerCase(trim(b.ingredient)) => a = b

(* ---------------------------- C6 --------------------------------------- *)

\* C6: has_item of every row of the table is a boolean, never NULL.
C6_HasItemBoolean == \A row \in pantry : row.has_item \in {"true", "false"}

(* ---------------------------- C7 --------------------------------------- *)

\* The step is a callback of r's storage call.
CallAnswered(r) ==
  /\ req[r].pc \in {"get", "run"}
  /\ req'[r].pc # req[r].pc \/ req'[r].index # req[r].index

\* C7: a step of the reconciler (arrival, db.get callback, db.run callback)
\* removes no row and changes no row; all it can add is one row, of a key the
\* table did not hold, with has_item = false; and the step for an ingredient
\* whose row exists leaves the table as it is.
C7_Frame ==
  [][last' = NoReply =>
       /\ pantry \subseteq pantry'
       /\ Cardinality(pantry' \ pantry) <= 1
       /\ \A row \in pantry' \ pantry :
            row.has_item = "false" /\ row.ingredient \notin TableKeys(pantry)
       /\ \A r \in Reqs :
            CallAnswered(r) /\ Current(req[r]) \in TableKeys(pantry) =>
              pantry' = pantry
    ]_vars

\* ["a", "aa"] reconciled against rows of both keys, one with has_item = true
\* and one with has_item = false: nothing added, nothing changed.
C7_Witness ==
  \E r \in Reqs :
    /\ Summarized(r) /\ req[r].clean
    /\ req[r].response.processedCount = 2
    /\ req[r].response.addedToShoppingList = 0
    /\ pantry = req[r].start
    /\ \E row \in pantry :
         row.ingredient = req[r].ingredientList[1] /\ row.has_item = "true"
    /\ \E row \in pantry :
         row.ingredient = req[r].ingredientList[2] /\ row.has_item = "false"

(* ---------------------------- C8 --------------------------------------- *)

\* C8: a request whose ingredients text is absent or empty is answered 400 at
\* once: it is never waiting for a storage call, it has issued none, and the
\* table is as it was when the request arrived (unless somebody else changed
\* it).
C8_Validation ==
  \A r \in Reqs :
    /\ req[r].pc # "idle"
    /\ req[r].ingredients = Undefined \/ Len(req[r].ingredients) = 0
    => /\ req[r].pc = "done"
       /\ req[r].response = ErrorResponse(400)
       /\ req[r].calls = 0
       /\ req[r].clean => pantry = req[r].start

\* The empty text was answered 400.
C8_Witness ==
  \E r \in Reqs :
    /\ req[r].pc = "done"
    /\ req[r].ingredients = <<>>
    /\ req[r].response.status = 400
    /\ req[r].clean

(* ---------------------------- C9 --------------------------------------- *)

\* C9: the reply of GET /api/shopping-list holds the rows with
\* has_item = false of the table, all of them, each once, in the order of
\* their keys, and no row with has_item = true.
C9_ShoppingList ==
  last.op = "GET /api/shopping-list" =>
    LET rows == last.rows
        missing == {row \in pantry : row.has_item = "false"}
    IN /\ {rows[i] : i \in 1..Len(rows)} = missing
       /\ Len(rows) = Cardinality(missing)
       /\ \A i, j \in 1..Len(rows) :
            i < j => TextLess(rows[i].ingredient, rows[j].ingredient)
       /\ \A i \in 1..Len(rows) : rows[i].has_item # "true"

\* A list of two rows that are not in the order of their ids, from a table
\* that also holds a row with has_item = true.
C9_Witness ==
  /\ last.op = "GET /api/shopping-list"
  /\ Len(last.rows) = 2
  /\ last.rows[1].id > last.rows[2].id
  /\ \E row \in pantry : row.has_item = "true"

(* ---------------------------- C10 -------------------------------------- *)

\* C10: after POST /api/pantry has answered 200 for (key, has_item) the table
\* holds exactly one row with that key, its has_item is the given boolean,
\* and the rows of the other keys are the ones from before.
C10_Upsert ==
  [][last'.op = "POST /api/pantry" =>
       LET k == last'.ingredient
           h == last'.has_item
       IN /\ Cardinality({row \in pantry' : row.ingredient = k}) = 1
          /\ h \in {"true", "false"} =>
               \A row \in pantry' : row.ingredient = k => row.has_item = h
          /\ {row \in pantry' : row.ingredient # k}
               = {row \in pantry : row.ingredient # k}
    ]_vars

\* An upsert of a key that had a row (the row kept its id, older than the one
\* the sequence handed out), next to a row of another key.
C10_Witness ==
  /\ last.op = "POST /api/pantry"
  /\ last.has_item = "false"
  /\ \E row \in pantry : /\ row.ingredient = last.ingredient
                         /\ row.has_item = "false"
                         /\ row.id < nextId - 1
  /\ \E row \in pantry : row.ingredient # last.ingredient

(* ---------------------------- C11 -------------------------------------- *)

\* The step is PUT /api/pantry/:id or DELETE /api/pantry/:id for `id`, of
\* whichever server runs, with no storage error.
ByIdAnswered(id) ==
  \/ \E h \in HasItemInputs : PutPantry(id, h, FALSE)
  \/ \E h \in HasItemInputs : PutPantryProduction(id, h, FALSE)
  \/ DeletePantry(id, FALSE)

\* C11: PUT /api/pantry/:id and DELETE /api/pantry/:id with an id no row has
\* are answered 404 and leave the table as it is; with the id of a row, PUT
\* changes has_item of that row only (to the boolean given) and DELETE
\* removes that row only.
C11_ById ==
  [][\A id \in Ids :
       LET hit == {row \in pantry : row.id = id}
           others == {row \in pantry : row.id # id}
       IN /\ ByIdAnswered(id) =>
               IF hit = {} THEN last' = ErrorReply(404) /\ pantry' = pantry
               ELSE last'.status = 200 /\ last'.id = id
          /\ last'.op = "PUT /api/pantry/:id" /\ last'.id = id =>
               /\ Cardinality(hit) = 1
               /\ {row \in pantry' : row.id # id} = others
               /\ \A old \in hit :
                    \E new \in pantry' :
                      /\ new.id = id /\ new.ingredient = old.ingredient
                      /\ last'.has_item \in {"true", "false"} =>
                           new.has_item = last'.has_item
               /\ Cardinality(pantry') = Cardinality(pantry)
          /\ last'.op = "DELETE /api/pantry/:id" /\ last'.id = id =>
               hit # {} /\ pantry' = others
    ]_vars

\* An id that no row of a table of several rows has was answered 404.
C11_Witness ==
  /\ last = ErrorReply(404)
  /\ Cardinality(pantry) >= 2
  /\ \E id \in Ids : id < nextId /\ \A row \in pantry : row.id # id

(* ---------------------------- C12 -------------------------------------- *)

\* The positions of the commas of a text, and the number of its pieces.
Commas(text) == {i \in 1..Len(text) : text[i] = ","}
PieceCount(text) == Cardinality(Commas(text)) + 1

\* The i-th smallest element of a set of numbers.
Nth(set, i) == CHOOSE j \in set : Cardinality({k \in set : k < j}) = i - 1

\* The j-th piece of a text lies between its (j-1)-th and its j-th comma,
\* the start and the end of the text counting as commas.
Bound(text, j) ==
  IF j = 0 THEN 0
  ELSE IF j = PieceCount(text) THEN Len(text) + 1
  ELSE Nth(Commas(text), j)
Piece(text, j) == SubSeq(text, Bound(text, j - 1) + 1, Bound(text, j) - 1)

\* A piece without its leading and trailing blanks: from its first to its
\* last character that is not a blank.
Stripped(piece) ==
  LET solid == {i \in 1..Len(piece) : piece[i] # " "}
  IN IF solid = {} THEN <<>>
     ELSE SubSeq(piece, Nth(solid, 1), Nth(solid, Cardinality(solid)))

\* `low` is `piece` with every upper-case letter replaced by its lower case.
IsLowerOf(low, piece) ==
  /\ Len(low) = Len(piece)
  /\ \A i \in 1..Len(piece) :
       low[i] = (IF piece[i] = "A" THEN "a" ELSE piece[i])

\* The pieces of a text that are not empty or blank.
Kept(text) ==
  {j \in 1..PieceCount(text) : Stripped(Piece(text, j)) # <<>>}

\* C12: the list computed from a text holds, in the order of the text and
\* with duplicates kept, its pieces between commas that are not empty or
\* blank, each without leading and trailing blanks and in lower case; every
\* element is non-empty, starts and ends with a non-blank and has no
\* upper-case letter; a text whose pieces are all empty or blank gives the
\* empty list; and this list is what the request works on.
C12_Normalizer ==
  \A r \in Reqs :
    req[r].pc # "idle" /\ req[r].ingredients # Undefined =>
      LET text == req[r].ingredients
          L == ingredientList(text)
      IN /\ ~Falsy(text) => req[r].ingredientList = L
         /\ Len(L) = Cardinality(Kept(text))
         /\ \A i \in 1..Len(L) :
              /\ IsLowerOf(L[i], Stripped(Piece(text, Nth(Kept(text), i))))
              /\ L[i] # <<>>
              /\ Head(L[i]) # " " /\ L[i][Len(L[i])] # " "
              /\ \A n \in 1..Len(L[i]) : L[i][n] # "A"
         /\ (\A i \in 1..Len(text) : text[i] \in {" ", ","}) => L = <<>>

\* " A,a," gives ["a", "a"]: trimmed, lower-cased, the duplicate kept, the
\* empty piece dropped.
C12_Witness ==
  \E r \in Reqs :
    /\ req[r].pc = "get"
    /\ req[r].ingredients = <<" ", "A", ",", "a", ",">>
    /\ req[r].ingredientList = << <<"a">>, <<"a">> >>

(* ---------------------------- C13 -------------------------------------- *)

\* The storage calls of a request that have been issued and not answered.
Outstanding(q) == q.calls - q.answered

\* C13: a request has at most one storage call outstanding (one while it
\* waits for db.get or db.run, none otherwise).  Its first lookup is for the
\* first ingredient.  An insert is issued only by the callback of the lookup
\* of the same ingredient that found no row.  The lookup of the next
\* ingredient is issued only by a callback without error for the current
\* one: of its lookup, which found a row, or of its insert, which put the row
\* into the table.  No other step moves the index or issues a call.
C13_Sequential ==
  /\ [](\A r \in Reqs :
         /\ Outstanding(req[r]) \in {0, 1}
         /\ Outstanding(req[r]) = 1 <=> req[r].pc \in {"get", "run"})
  /\ [][\A r \in Reqs :
         LET q == req[r]
             n == req'[r]
             waiting == q.pc \in {"get", "run"}
         IN /\ ~waiting /\ n.pc \in {"get", "run"} =>
                 n.pc = "get" /\ n.index = 0 /\ n.calls = 1 /\ n.answered = 0
            /\ waiting /\ n.pc = "run" /\ n.calls # q.calls =>
                 /\ q.pc = "get" /\ n.index = q.index
                 /\ n.calls = q.calls + 1 /\ n.answered = q.calls
                 /\ SelectByIngredient(pantry, Current(q)) = {}
                 /\ n.sent = 0
            /\ waiting /\ n.pc = "get" /\ n.calls # q.calls =>
                 /\ n.index = q.index + 1
                 /\ n.calls = q.calls + 1 /\ n.answered = q.calls
                 /\ n.sent = 0
                 /\ q.pc = "get" => SelectByIngredient(pantry, Current(q)) # {}
                 /\ q.pc = "run" =>
                      /\ Row(nextId, Current(q), "false") \in pantry' \ pantry
                      /\ n.inserts = q.inserts + 1
            /\ waiting /\ n.calls = q.calls =>
                 \/ n.pc = q.pc /\ n.index = q.index /\ n.answered = q.answered
                 \/ n.pc = "done" /\ n.answered = q.calls
                      /\ n.index \in {q.index, q.index + 1}
            /\ waiting => n.pc # "idle"
      ]_vars

\* ["a", "aa"]: lookup of "a" (found), lookup of "aa" (no row), insert of
\* "aa", summary; three calls, all answered.
C13_Witness ==
  \E r \in Reqs :
    /\ Summarized(r)
    /\ Len(req[r].ingredientList) = 2
    /\ req[r].calls = 3 /\ req[r].answered = 3 /\ req[r].inserts = 1

(* ---------------------------- C14 -------------------------------------- *)

\* Both requests wait for their INSERT of the same key, which has no row.
BothInsert(rq, table) ==
  /\ \A r \in Reqs : rq[r].pc = "run"
  /\ \A r, o \in Reqs : Current(rq[r]) = Current(rq[o])
  /\ \A r \in Reqs : ~Conflicts(table, Current(rq[r]))

\* C14: the lookup and the insert of a request are not isolated from the
\* other request.  A lookup that is answered "no row" while the other request
\* already waits for its insert of the same key issues its own insert of that
\* key as well: nothing, table or other request, is touched by the step, and
\* both requests then wait for an insert of the same absent key.
C14_NotIsolated ==
  [][\A r, o \in Reqs :
       /\ r # o
       /\ req[o].pc = "run"
       /\ req[r].pc = "get" /\ Current(req[r]) = Current(req[o])
       /\ ~Conflicts(pantry, Current(req[r]))
       /\ LookupAnswered(r)
       => /\ BothInsert(req', pantry')
          /\ pantry' = pantry /\ req'[o] = req[o]
          /\ req'[r].index = req[r].index
    ]_vars

\* Both requests looked up "aa", both found no row, neither has inserted.
C14_Witness ==
  /\ BothInsert(req, pantry)
  /\ \A r \in Reqs : req[r].inserts = 0 /\ Outstanding(req[r]) = 1

(* ---------------------------- C15 -------------------------------------- *)

\* The rows of a table that hold a key.
RowsOf(table, k) == {row \in table : row.ingredient = k}

\* C15: with overlapping reconciliation requests and upserts, no two rows of
\* the table ever hold the same key.  An INSERT of the reconciler that is
\* answered when a row of its key is there (the other request, or an upsert,
\* got in first) is rejected: the request ends with the error response, its
\* only response, and no summary, and the table, with its one row of the
\* key, is left as it is.
C15_UniqueKey ==
  /\ [](\A a, b \in pantry : a.ingredient = b.ingredient => a = b)
  /\ [][\A r \in Reqs :
         LET q == req[r]
             n == req'[r]
         IN q.pc = "run" /\ CallAnswered(r)
              /\ RowsOf(pantry, Current(q)) # {} =>
              /\ n.pc = "done" /\ n.response = ErrorResponse(500)
              /\ n.sent = 1 /\ n.inserts = q.inserts
              /\ pantry' = pantry
              /\ Cardinality(RowsOf(pantry', Current(q))) = 1
      ]_vars

\* Both requests were to insert "aa"; one did, the other was answered 500 in
\* the insert of its first ingredient, and the table holds one row of "aa".
C15_Witness ==
  \E r, o \in Reqs :
    /\ r # o
    /\ StorageFailed(r) /\ req[r].index = 0 /\ req[r].answered = 2
    /\ req[o].inserts = 1
    /\ \E row \in pantry :
         /\ RowsOf(pantry, req[r].ingredientList[1]) = {row}
         /\ row.has_item = "false"
         /\ row.ingredient \in KeysOf(req[o].ingredientList, req[o].index)
    /\ last = NoReply

(* ---------------------------- C16 -------------------------------------- *)

\* C16: a request sends at most one response.  It has sent none while it is
\* being processed and exactly one when it is done: the summary or an error
\* response.  A request that has responded issues no storage call, runs no
\* callback and keeps the response it sent, until the next request arrives.
C16_OneResponse ==
  /\ [](\A r \in Reqs :
         /\ req[r].sent \in {0, 1}
         /\ req[r].sent = 1 <=> req[r].pc = "done"
         /\ req[r].sent = 0 <=> req[r].response = NoResponse
         /\ req[r].sent = 1 => req[r].response.status \in {200, 400, 500}
         /\ req[r].sent = 1 => Outstanding(req[r]) = 0)
  /\ [][\A r \in Reqs :
         LET q == req[r]
             n == req'[r]
         IN q.sent = 1 =>
              \/ /\ n.response = q.response /\ n.sent = 1 /\ n.pc = "done"
                 /\ n.calls = q.calls /\ n.answered = q.answered
                 /\ n.inserts = q.inserts
              \/ \E ingredients \in ConcurrentTexts :
                   ProcessIngredients(r, ingredients)
      ]_vars

\* Two overlapping requests, one answered with its summary after an insert,
\* the other with a storage error: one response each.
C16_Witness ==
  \E r, o \in Reqs :
    /\ Summarized(r) /\ req[r].inserts = 1 /\ req[r].sent = 1
    /\ StorageFailed(o) /\ req[o].sent = 1 /\ req[o].answered = 2
    /\ Current(req[o]) \in KeysOf(req[r].ingredientList, req[r].index)

(* ---------------------------- C17 -------------------------------------- *)

\* C17: when every storage call is answered, a request that waits for one
\* sends its response in the end.  The index moves only forward, by one, with
\* processedCount, and never past the end of the list L; the request issues
\* at most two storage calls for each ingredient it has taken up, so at most
\* 2 * Len(L) in all.
C17_Responds ==
  /\ \A r \in Reqs : (req[r].pc \notin {"idle", "done"}) ~> (req[r].sent = 1)
  /\ [](\A r \in Reqs :
         LET q == req[r]
             taken == IF q.pc = "done" /\ q.response.status # 500
                      THEN q.index ELSE q.index + 1
         IN /\ q.index <= Len(q.ingredientList)
            /\ q.pc \in {"get", "run"} => q.index < Len(q.ingredientList)
            /\ q.pc # "idle" /\ q.response.status # 400 =>
                 q.calls <= 2 * taken /\ q.calls <= 2 * Len(q.ingredientList))
  /\ [][\A r \in Reqs :
         LET q == req[r]
             n == req'[r]
         IN q.pc \in {"get", "run"} /\ n.index # q.index =>
              /\ n.index = q.index + 1
              /\ n.processedCount = q.processedCount + 1
              /\ n.response.status # 500
      ]_vars

\* ["aa", "a a"], neither in the table: two calls for each, then the summary.
C17_Witness ==
  \E r \in Reqs :
    /\ Summarized(r)
    /\ Len(req[r].ingredientList) = 2
    /\ req[r].calls = 4 /\ req[r].answered = 4

(* ---------------------------- C18 -------------------------------------- *)

\* C18: for every request, processedCount = index, 0 <= addedToShoppingList
\* <= processedCount <= Len(L), and addedToShoppingList is the number of rows
\* its own INSERT statements put into the table; the summary carries these
\* counters; and a step of one request leaves the counters of the other
\* request as they are.
C18_Counters ==
  /\ [](\A r \in Reqs :
         LET q == req[r]
         IN /\ q.processedCount = q.index
            /\ 0 <= q.addedToShoppingList
            /\ q.addedToShoppingList <= q.processedCount
            /\ q.processedCount <= Len(q.ingredientList)
            /\ q.addedToShoppingList = q.inserts
            /\ Summarized(r) =>
                 /\ q.response.processedCount = q.index
                 /\ q.index = Len(q.ingredientList)
                 /\ q.response.addedToShoppingList = q.inserts)
  /\ [][\A r, o \in Reqs :
         /\ r # o
         /\ \/ CallAnswered(r)
            \/ \E ingredients \in ConcurrentTexts :
                 ProcessIngredients(r, ingredients)
         =>
           /\ req'[o].processedCount = req[o].processedCount
           /\ req'[o].addedToShoppingList = req[o].addedToShoppingList
           /\ req'[o].index = req[o].index
           /\ req'[o].inserts = req[o].inserts
      ]_vars

\* One request has inserted its first ingredient and looks up its second
\* while the other waits for the insert of its first.
C18_Witness ==
  \E r, o \in Reqs :
    /\ r # o
    /\ req[r].pc = "get" /\ req[r].index = 1
    /\ req[r].processedCount = 1 /\ req[r].addedToShoppingList = 1
    /\ req[o].pc = "run" /\ req[o].index = 0
    /\ req[o].addedToShoppingList = 0

====
